---- MODULE Spec2Model ----
(***************************************************************************)
(* Model of subscription_bot.py: configuration loading (load_config),      *)
(* start-up (main) and the two command handlers (start, get_material).     *)
(*                                                                         *)
(* Python strings are sequences of tokens, so that concatenation, the      *)
(* f-string "\n{link}" and truthiness are computed, not assumed.  None is  *)
(* a distinguished one-token sequence that no real string equals.          *)
(***************************************************************************)
EXTENDS Integers, Sequences, FiniteSets, TLC

VARIABLES env, phase, bot_data, handlers, hasCreator, fileOnDisk, req

vars == <<env, phase, bot_data, handlers, hasCreator, fileOnDisk, req>>

\* ---------------------------------------------------------------- bounds
NumUsers == 2

Users == 1..NumUsers

\* ------------------------------------------------- Python values and idioms
None == <<"<None>">>

\* bool(v) for an Optional[str] / Optional[Path]
Truthy(v) == v /= None /\ Len(v) > 0

\* the expression `a or b`
Or(a, b) == IF Truthy(a) THEN a ELSE b

\* --------------------------------------------- telegram.constants values
OWNER == "creator"
ADMINISTRATOR == "administrator"
MEMBER == "member"
RESTRICTED == "restricted"
LEFT == "left"
BANNED == "kicked"
NoneStatus == "<None>"
HTML == <<"HTML">>

\* statuses get_chat_member can hand back: the six of the Bot API, one the
\* library does not know, and an absent status
Statuses == {OWNER, ADMINISTRATOR, MEMBER, RESTRICTED, LEFT, BANNED,
             "unknown", NoneStatus}

\* ------------------------------------------------------------ message texts
GreetingText == <<"greeting">>
FileErrorText == <<"file-send-error">>
DefaultMaterialText == <<"thanks-default-material">>
PromptText == <<"please-subscribe">>
UnverifiedText == <<"could-not-verify-subscription">>

\* ------------------------------------------------------------- environment
TokenValues == {None, <<>>, <<"t", "o", "k">>}
TargetValues == {None, <<>>, <<"-", "1", "0", "7">>, <<"@", "c">>}
TextValues == {None, <<>>, <<"T", "x">>}
FileValues == {None, <<>>, <<"f.pdf">>, <<"~", "d", "f.pdf">>,
               <<"~nouser", "d", "f.pdf">>}
LinkValues == {None, <<>>, <<"t.me/x">>}

Envs == [token : TokenValues, target : TargetValues, text : TextValues,
         file : FileValues, link : LinkValues]

\* ------------------------------------------------------------------ int()
Digits == {"0", "1", "2", "3", "4", "5", "6", "7", "8", "9"}

DigitVal(d) ==
  CASE d = "0" -> 0 [] d = "1" -> 1 [] d = "2" -> 2 [] d = "3" -> 3
    [] d = "4" -> 4 [] d = "5" -> 5 [] d = "6" -> 6 [] d = "7" -> 7
    [] d = "8" -> 8 [] d = "9" -> 9

AllDigits(s) == Len(s) > 0 /\ \A i \in 1..Len(s) : s[i] \in Digits

RECURSIVE DigitsVal(_)
DigitsVal(s) ==
  IF Len(s) = 0 THEN 0
  ELSE 10 * DigitsVal(SubSeq(s, 1, Len(s) - 1)) + DigitVal(s[Len(s)])

\* int(s) succeeds on an optional sign followed by digits
IsIntLiteral(s) ==
  /\ Len(s) > 0
  /\ IF s[1] \in {"-", "+"} THEN AllDigits(Tail(s)) ELSE AllDigits(s)

ParseInt(s) ==
  IF s[1] = "-" THEN 0 - DigitsVal(Tail(s))
  ELSE IF s[1] = "+" THEN DigitsVal(Tail(s))
  ELSE DigitsVal(s)

IntId(n) == [kind |-> "int", int |-> n, str |-> <<>>]
StrId(s) == [kind |-> "str", int |-> 0, str |-> s]

\* try: int(target) except ValueError: pass
ConvertChatId(s) == IF IsIntLiteral(s) THEN IntId(ParseInt(s)) ELSE StrId(s)

\* ------------------------------------------------------------------- Path
HomeDir == <<"home", "bot">>

\* Path.expanduser(): "~" becomes the home directory, "~user" of a user that
\* does not exist raises RuntimeError, anything else is unchanged
ExpandUserRaises(p) == p[1] = "~nouser"

ExpandUser(p) == IF p[1] = "~" THEN HomeDir \o Tail(p) ELSE p

\* Path.name: the last component
PathName(p) == <<p[Len(p)]>>

\* ------------------------------------------------------------ load_config
NoConfig == [loaded |-> FALSE]

\* the three checks of load_config; "none" when all pass
ConfigError_NoMaterialCheck(e) ==
  IF ~Truthy(e.token) THEN "token"
  ELSE IF ~Truthy(e.target) THEN "target"
  ELSE "none"

ConfigError(e) ==
  IF ~Truthy(e.token) THEN "token"
  ELSE IF ~Truthy(e.target) THEN "target"
  ELSE IF ~(Truthy(e.text) \/ Truthy(e.file)) THEN "material"
  ELSE "none"

LoadConfigRaises(e) ==
  \/ ConfigError(e) /= "none"
  \/ (Truthy(e.file) /\ ExpandUserRaises(e.file))

LoadConfig(e) ==
  [loaded |-> TRUE,
   token |-> e.token,
   target_chat_id |-> ConvertChatId(e.target),
   material_text |-> e.text,
   material_file_path |-> IF Truthy(e.file) THEN ExpandUser(e.file) ELSE e.file,
   channel_invite_link |-> e.link]

\* -------------------------------------------------------- transport calls
\* a call of the transport; ok is filled in when the awaited call returns
Call(op, site, user, text, caption, filename, parse_mode) ==
  [op |-> op, site |-> site, chat_id |-> user, text |-> text,
   caption |-> caption, filename |-> filename, parse_mode |-> parse_mode,
   ok |-> FALSE]

Completed(c, ok) == [c EXCEPT !.ok = ok]

\* the call sites, by the source line of the call
SiteReplyText == 137
SiteSendDocument == 173
SiteFileError == 181
SiteMaterialText == 187
SitePrompt == 198
SiteUnverified == 211

SendDocument(user, filename, caption) ==
  Call("send_document", SiteSendDocument, user, None, caption, filename, None)

SendMessage(site, user, text, parse_mode) ==
  Call("send_message", site, user, text, None, None, parse_mode)

\* --------------------------------------------------------- get_material
\* status in [MEMBER, ADMINISTRATOR, OWNER, CREATOR if hasattr(...) else None]
AuthorizedList(hc) ==
  <<MEMBER, ADMINISTRATOR, OWNER, IF hc THEN OWNER ELSE NoneStatus>>

IsAuthorized_RestrictedToo(status, hc) ==
  \/ \E i \in 1..Len(AuthorizedList(hc)) : AuthorizedList(hc)[i] = status
  \/ status = RESTRICTED

IsAuthorized_MemberOnly(status, hc) == status = MEMBER

IsAuthorized(status, hc) ==
  \E i \in 1..Len(AuthorizedList(hc)) : AuthorizedList(hc)[i] = status

\* reply, then `if channel_invite_link: reply += f"\n{channel_invite_link}"`
BuildReply_NotNone(base, link) ==
  IF link /= None THEN base \o <<"\n">> \o link ELSE base

BuildReply(base, link) ==
  IF Truthy(link) THEN base \o <<"\n">> \o link ELSE base

\* caption=material_text or None
Caption(text) == Or(text, None)

\* what the handler does between two awaits: the log calls it makes, the
\* transport call it awaits next (none: the handler is over) and whether an
\* exception leaves the handler
Step(log, next, raised) == [log |-> log, next |-> next, raised |-> raised]

FileErrorMessage(user) == SendMessage(SiteFileError, user, FileErrorText, None)

MaterialTextMessage(config, user) ==
  SendMessage(SiteMaterialText, user,
              Or(config.material_text, DefaultMaterialText), None)

PromptMessage(config, user) ==
  SendMessage(SitePrompt, user,
              BuildReply(PromptText, config.channel_invite_link), HTML)

UnverifiedMessage(config, user) ==
  SendMessage(SiteUnverified, user,
              BuildReply(UnverifiedText, config.channel_invite_link), None)

\* `material_file_path and material_file_path.exists()`: exists() answers
\* for the file as it is on disk when it is asked
TakesFileBranch(config, onDisk) == Truthy(config.material_file_path) /\ onDisk

\* open("rb"), then send_document; a failed open goes to the inner except
FileBranch(config, user, openRes) ==
  IF openRes = "ok"
  THEN Step(<<>>,
            <<SendDocument(user, PathName(config.material_file_path),
                           Caption(config.material_text))>>,
            FALSE)
  ELSE Step(<<"exception">>, <<FileErrorMessage(user)>>, FALSE)

AuthorizedBranch_TextFirst(config, onDisk, user, openRes) ==
  IF Truthy(config.material_text) \/ ~TakesFileBranch(config, onDisk)
  THEN Step(<<>>, <<MaterialTextMessage(config, user)>>, FALSE)
  ELSE FileBranch(config, user, openRes)

AuthorizedBranch(config, onDisk, user, openRes) ==
  IF TakesFileBranch(config, onDisk)
  THEN FileBranch(config, user, openRes)
  ELSE Step(<<>>, <<MaterialTextMessage(config, user)>>, FALSE)

\* get_chat_member returned: from the debug log to the first send
AfterQueryOk(config, hc, onDisk, user, status, openRes) ==
  LET b == IF IsAuthorized(status, hc)
           THEN AuthorizedBranch(config, onDisk, user, openRes)
           ELSE Step(<<>>, <<PromptMessage(config, user)>>, FALSE)
  IN Step(<<"debug">> \o b.log, b.next, b.raised)

\* get_chat_member raised: the outer except
AfterQueryFailed(config, user) ==
  Step(<<"warning">>, <<UnverifiedMessage(config, user)>>, FALSE)

\* a send returned or raised.  A send that succeeds ends the handler (the
\* return after the inner try, or the end of the function).  send_document
\* failing goes to the inner except; any other send inside the outer try
\* failing goes to the outer except; the send of the outer except failing
\* leaves the handler as an exception.
AfterSend_NoReturn(config, user, site, ok) ==
  IF ok
  THEN IF site = SiteSendDocument
       THEN Step(<<>>, <<MaterialTextMessage(config, user)>>, FALSE)
       ELSE Step(<<>>, <<>>, FALSE)
  ELSE IF site = SiteSendDocument
       THEN Step(<<"exception">>, <<FileErrorMessage(user)>>, FALSE)
       ELSE IF site = SiteUnverified
            THEN Step(<<>>, <<>>, TRUE)
            ELSE Step(<<"warning">>, <<UnverifiedMessage(config, user)>>, FALSE)

AfterSend(config, user, site, ok) ==
  IF ok
  THEN Step(<<>>, <<>>, FALSE)
  ELSE IF site = SiteSendDocument
       THEN Step(<<"exception">>, <<FileErrorMessage(user)>>, FALSE)
       ELSE IF site = SiteUnverified
            THEN Step(<<>>, <<>>, TRUE)
            ELSE Step(<<"warning">>, <<UnverifiedMessage(config, user)>>, FALSE)

\* ------------------------------------------------------------------ state
\* the update being handled (updates are handled one after the other)
NoRequest ==
  [handler |-> "none", user |-> 0, pc |-> "idle", query |-> "none",
   status |-> "n/a", onDisk |-> FALSE, open |-> "none", calls |-> <<>>,
   pending |-> <<>>, log |-> <<>>, raised |-> FALSE]

Idle == req.pc \in {"idle", "done"}

Init ==
  /\ env \in Envs
  /\ phase = "boot"
  /\ bot_data = NoConfig
  /\ handlers = {}
  /\ hasCreator \in BOOLEAN
  /\ fileOnDisk \in BOOLEAN
  /\ req = NoRequest

\* main(): load_config raises and nothing is registered
MainRefuses ==
  /\ phase = "boot"
  /\ LoadConfigRaises(env)
  /\ phase' = "crashed"
  /\ UNCHANGED <<env, bot_data, handlers, hasCreator, fileOnDisk, req>>

\* main(): the configuration is stored, both handlers registered, polling starts
MainStarts ==
  /\ phase = "boot"
  /\ ~LoadConfigRaises(env)
  /\ bot_data' = LoadConfig(env)
  /\ handlers' = {"start", "get"}
  /\ phase' = "polling"
  /\ UNCHANGED <<env, hasCreator, fileOnDisk, req>>

\* /start: one reply_text, awaited
StartBegin ==
  /\ phase = "polling" /\ "start" \in handlers /\ Idle
  /\ \E user \in Users :
       req' = [NoRequest EXCEPT
                 !.handler = "start", !.user = user, !.pc = "send",
                 !.pending = <<Call("reply_text", SiteReplyText, user, GreetingText,
                                    None, None, None)>>]
  /\ UNCHANGED <<env, phase, bot_data, handlers, hasCreator, fileOnDisk>>

StartReplyReturns ==
  /\ req.handler = "start" /\ req.pc = "send"
  /\ \E ok \in BOOLEAN :
       req' = [req EXCEPT !.pc = "done", !.pending = <<>>,
                          !.calls = @ \o <<Completed(req.pending[1], ok)>>,
                          !.raised = ~ok]
  /\ UNCHANGED <<env, phase, bot_data, handlers, hasCreator, fileOnDisk>>

\* /get: up to `await context.bot.get_chat_member(...)`
GetBegin ==
  /\ phase = "polling" /\ "get" \in handlers /\ Idle
  /\ \E user \in Users :
       req' = [NoRequest EXCEPT !.handler = "get", !.user = user,
                                !.pc = "query", !.query = "pending"]
  /\ UNCHANGED <<env, phase, bot_data, handlers, hasCreator, fileOnDisk>>

\* get_chat_member returns a status; the handler runs to its first send.
\* openRes is what open("rb") does if it is reached: "gone" is the file
\* removed after exists() answered, "denied" any other OSError.
QueryReturns ==
  /\ req.handler = "get" /\ req.pc = "query"
  /\ \E status \in Statuses, openRes \in {"ok", "gone", "denied"} :
       LET s == AfterQueryOk(bot_data, hasCreator, fileOnDisk, req.user, status, openRes)
           opened == IsAuthorized(status, hasCreator)
                       /\ TakesFileBranch(bot_data, fileOnDisk)
       IN /\ req' = [req EXCEPT !.pc = "send", !.query = "ok", !.status = status,
                                !.onDisk = fileOnDisk,
                                !.open = IF opened THEN openRes ELSE "none",
                                !.log = @ \o s.log, !.pending = s.next]
          /\ fileOnDisk' = IF opened /\ openRes = "gone" THEN FALSE ELSE fileOnDisk
  /\ UNCHANGED <<env, phase, bot_data, handlers, hasCreator>>

\* get_chat_member raises
QueryFails ==
  /\ req.handler = "get" /\ req.pc = "query"
  /\ LET s == AfterQueryFailed(bot_data, req.user)
     IN req' = [req EXCEPT !.pc = "send", !.query = "failed",
                           !.log = @ \o s.log, !.pending = s.next]
  /\ UNCHANGED <<env, phase, bot_data, handlers, hasCreator, fileOnDisk>>

\* the awaited send_document / send_message returns or raises
SendReturns ==
  /\ req.handler = "get" /\ req.pc = "send"
  /\ \E ok \in BOOLEAN :
       LET c == req.pending[1]
           s == AfterSend(bot_data, req.user, c.site, ok)
       IN req' = [req EXCEPT !.calls = @ \o <<Completed(c, ok)>>,
                             !.log = @ \o s.log,
                             !.pending = s.next,
                             !.raised = s.raised,
                             !.pc = IF s.next = <<>> THEN "done" ELSE "send"]
  /\ UNCHANGED <<env, phase, bot_data, handlers, hasCreator, fileOnDisk>>

\* the material file is created or removed by something outside the bot
FileAppears ==
  /\ ~fileOnDisk
  /\ fileOnDisk' = TRUE
  /\ UNCHANGED <<env, phase, bot_data, handlers, hasCreator, req>>

FileDisappears ==
  /\ fileOnDisk
  /\ fileOnDisk' = FALSE
  /\ UNCHANGED <<env, phase, bot_data, handlers, hasCreator, req>>

\* ------------------------------------------------------------ properties
\* the statuses the bot is meant to serve
AuthorizedStatuses == {OWNER, ADMINISTRATOR, MEMBER}

\* the transport calls of the request so far, the awaited one included
Issued == req.calls \o req.pending

GetDone == req.handler = "get" /\ req.pc = "done"

QueryOk == req.handler = "get" /\ req.query = "ok"

\* the replies the user received: the sends that succeeded
Replies == Cardinality({i \in 1..Len(req.calls) : req.calls[i].ok})

IsMaterialCall(c) ==
  c.op = "send_document" \/ c.site \in {SiteSendDocument, SiteMaterialText}

FileConfigured ==
  bot_data.material_file_path /= None /\ bot_data.material_file_path /= <<>>

\* the file was there when exists() was asked and was not removed before open()
FilePresent == req.onDisk /\ req.open /= "gone"

\* C1 (as stated): whenever the membership query returns a status other than
\* owner, administrator or member - an unknown or absent status included -
\* the request makes no send_document call and sends no material text.
C1_FailClosed ==
  (QueryOk /\ req.status \notin AuthorizedStatuses)
    => \A i \in 1..Len(Issued) : ~IsMaterialCall(Issued[i])

\* C2 (as stated): a finished request whose query returned owner,
\* administrator or member made exactly one transport send, the material.
C2_ExactlyOneSend ==
  (GetDone /\ QueryOk /\ req.status \in AuthorizedStatuses)
    => (Len(req.calls) = 1 /\ IsMaterialCall(req.calls[1]))

\* C2 (amended): for a request whose query returned owner, administrator or
\* member, the first send is the material (send_document or the material
\* text) unless opening the file failed, when it is the file-error message;
\* the material is sent at most once; if the first send succeeds it is the
\* only send of the request; if it fails one or two more send_message calls
\* follow, never more than three sends in all.
C2_OneSendWhenFirstSucceeds ==
  (QueryOk /\ req.status \in AuthorizedStatuses)
    => /\ Len(Issued) >= 1
       /\ Len(Issued) <= 3
       /\ IF req.open \in {"gone", "denied"}
          THEN Issued[1].site = SiteFileError
          ELSE IsMaterialCall(Issued[1])
       /\ Cardinality({i \in 1..Len(Issued) : IsMaterialCall(Issued[i])}) <= 1
       /\ (Len(req.calls) >= 1 /\ req.calls[1].ok)
            => (Len(Issued) = 1 /\ req.pc = "done")
       /\ (GetDone /\ ~req.calls[1].ok)
            => (Len(req.calls) >= 2
                /\ \A i \in 2..Len(req.calls) : req.calls[i].op = "send_message")

C2_Witness ==
  /\ GetDone /\ QueryOk /\ req.status = ADMINISTRATOR
  /\ Len(req.calls) = 1 /\ req.calls[1].ok
  /\ req.calls[1].site = SiteSendDocument

\* C3: whenever the membership query returns left, banned or restricted, the
\* first send of the request is the subscription prompt, sent to the
\* requesting user, and no send of the request carries the material.
C3_PromptNeverMaterial ==
  (QueryOk /\ req.status \in {LEFT, BANNED, RESTRICTED})
    => /\ Len(Issued) >= 1
       /\ Issued[1].op = "send_message"
       /\ Issued[1].site = SitePrompt
       /\ Issued[1].chat_id = req.user
       /\ SubSeq(Issued[1].text, 1, Len(PromptText)) = PromptText
       /\ \A i \in 1..Len(Issued) : ~IsMaterialCall(Issued[i])

C3_Witness ==
  /\ GetDone /\ QueryOk /\ req.status = RESTRICTED
  /\ Len(req.calls) = 1 /\ req.calls[1].ok /\ req.calls[1].site = SitePrompt

C5_NoEscape ==
  GetDone
    => /\ ~req.raised
       /\ (req.query = "failed")
            => (Replies >= 1 /\ \E i \in 1..Len(req.log) : req.log[i] = "warning")

\* C6 (as stated): for owner, administrator or member, with material_file
\* configured and the file present, the first send is send_document with
\* caption material_text (None when that is empty), and the material text
\* is never sent as a plain message.
C6_FileSentWhenExists ==
  (QueryOk /\ req.status \in AuthorizedStatuses /\ FileConfigured /\ FilePresent)
    => /\ Len(Issued) >= 1
       /\ Issued[1].op = "send_document"
       /\ Issued[1].caption = IF bot_data.material_text \in {None, <<>>}
                              THEN None ELSE bot_data.material_text
       /\ \A i \in 1..Len(Issued) : Issued[i].site /= SiteMaterialText

\* C6 (amended): for owner, administrator or member, with material_file
\* configured and the file present, the material text is never sent as a
\* plain message; if the file can be opened the first send is send_document
\* with caption material_text (None when that is empty or unset); if opening
\* it fails no send_document is made and the file-error message is sent.
C6_FileSentWhenOpened ==
  (QueryOk /\ req.status \in AuthorizedStatuses /\ FileConfigured /\ FilePresent)
    => /\ Len(Issued) >= 1
       /\ \A i \in 1..Len(Issued) : Issued[i].site /= SiteMaterialText
       /\ (req.open = "ok")
            => /\ Issued[1].op = "send_document"
               /\ Issued[1].chat_id = req.user
               /\ Issued[1].caption = IF bot_data.material_text \in {None, <<>>}
                                      THEN None ELSE bot_data.material_text
       /\ (req.open /= "ok")
            => /\ \A i \in 1..Len(Issued) : Issued[i].op /= "send_document"
               /\ Issued[1].site = SiteFileError

C6_Witness ==
  /\ GetDone /\ QueryOk /\ req.status = MEMBER /\ req.open = "ok"
  /\ bot_data.material_text \notin {None, <<>>}
  /\ Len(req.calls) = 1 /\ req.calls[1].ok
  /\ req.calls[1].op = "send_document"
  /\ req.calls[1].caption = bot_data.material_text
  /\ req.calls[1].filename = <<"f.pdf">>

\* C7 (as stated): for owner, administrator or member, with material_file
\* configured but the file missing when it is to be sent (missing when
\* exists() is asked, or removed between exists() and open()), the first
\* send is the plain material text (the default text when material_text is
\* empty), the file-error message is never sent, nothing is raised and the
\* user is not left without a reply.
C7_FallsThroughToText ==
  (QueryOk /\ req.status \in AuthorizedStatuses /\ FileConfigured
     /\ (~req.onDisk \/ req.open = "gone"))
    => /\ Len(Issued) >= 1
       /\ Issued[1].site = SiteMaterialText
       /\ Issued[1].text = IF bot_data.material_text \in {None, <<>>}
                           THEN DefaultMaterialText ELSE bot_data.material_text
       /\ \A i \in 1..Len(Issued) : Issued[i].site /= SiteFileError
       /\ GetDone => (~req.raised /\ Replies >= 1)

\* C8: every subscription-prompt reply and every could-not-verify reply is
\* the bare message followed by a newline and the invite link when the link
\* is configured, and the bare message alone when it is absent or empty.
C8_InviteLinkAppended ==
  \A i \in 1..Len(Issued) :
    (req.handler = "get" /\ Issued[i].site \in {SitePrompt, SiteUnverified})
      => LET base == IF Issued[i].site = SitePrompt THEN PromptText
                     ELSE UnverifiedText
             link == bot_data.channel_invite_link
             text == Issued[i].text
         IN IF link = None \/ link = <<>>
            THEN text = base
            ELSE /\ Len(text) = Len(base) + 1 + Len(link)
                 /\ SubSeq(text, 1, Len(base)) = base
                 /\ text[Len(base) + 1] = "\n"
                 /\ SubSeq(text, Len(base) + 2, Len(text)) = link

C8_Witness ==
  /\ GetDone /\ req.query = "failed"
  /\ bot_data.channel_invite_link = <<"t.me/x">>
  /\ req.calls[1].site = SiteUnverified /\ req.calls[1].ok
  /\ req.calls[1].text = UnverifiedText \o <<"\n", "t.me/x">>

\* the settings load_config accepts, as the claim states them
ValidSettings(e) ==
  /\ e.token \notin {None, <<>>}
  /\ e.target \notin {None, <<>>}
  /\ (e.text \notin {None, <<>>} \/ e.file \notin {None, <<>>})

\* C9: the bot reaches polling only from settings with token and target chat
\* present and at least one of material text / material file present; from
\* any other settings load_config raises and no handler is ever registered
\* or run; so the configuration of every handled request has a material form.
C9_StartsOnlyWithValidConfig ==
  /\ (phase = "polling")
       => /\ ValidSettings(env)
          /\ bot_data.loaded
          /\ \/ bot_data.material_text \notin {None, <<>>}
             \/ bot_data.material_file_path \notin {None, <<>>}
  /\ (phase /= "boot" /\ ~ValidSettings(env)) => phase = "crashed"
  /\ (phase = "crashed")
       => (handlers = {} /\ bot_data = NoConfig /\ req = NoRequest)
  /\ (req.handler /= "none") => phase = "polling"

C9_Witness ==
  /\ phase = "polling" /\ GetDone
  /\ bot_data.material_text = None
  /\ bot_data.material_file_path = <<"home", "bot", "d", "f.pdf">>

\* C10 (as stated): the could-not-verify reply is sent only in a request
\* whose membership query failed.
C10_UnverifiedOnlyAfterQueryFailure ==
  \A i \in 1..Len(Issued) :
    (req.handler = "get" /\ Issued[i].site = SiteUnverified)
      => req.query = "failed"


Next ==
  \/ MainRefuses
  \/ MainStarts
  \/ StartBegin
  \/ StartReplyReturns
  \/ GetBegin
  \/ QueryReturns
  \/ QueryFails
  \/ SendReturns
  \/ FileAppears
  \/ FileDisappears

Spec == Init /\ [][Next]_vars

====
